---- MODULE Spec2Model ----
(***************************************************************************)
(* Anki Night Mode add-on.                                                 *)
(*                                                                         *)
(* Version 1 (src/Night_Mode.py): module-level settings, a profile         *)
(* dictionary they are saved to and loaded from, the host attributes the   *)
(* add-on patches, the two checkable menu actions, the dialog hooks and    *)
(* the script run in rendered cards.                                       *)
(* Version 2 (src/night_mode/night_mode.py): StylingManager,               *)
(* NightMode.refresh and night_class_injection.                            *)
(*                                                                         *)
(* A string is a sequence of tokens and + is \o, so that "the original     *)
(* followed by nothing" and "the original followed by a style" differ.     *)
(* Host calls (Qt, aqt) return normally; what the add-on asks of the host  *)
(* during one handler is recorded in calls.                                *)
(***************************************************************************)
EXTENDS Integers, Sequences, FiniteSets, TLC

(***************************************************************************)
(* Bounds                                                                  *)
(***************************************************************************)
\* number of distinct colours the colour picker can return
MaxPicked == 1

PickedColors == {"#picked" \o ToString(i) : i \in 1..MaxPicked}

(***************************************************************************)
(* Version 1: constants of src/Night_Mode.py                               *)
(***************************************************************************)
theme_color0 == "theme.color0"
theme_color1 == "theme.color1"
theme_color3 == "theme.color3"
theme_color4 == "theme.color4"
theme_color7 == "theme.color7"
theme_foreground == "theme.foreground"

nm_color_tl == "#ffffff"
nm_color_al == theme_color4
nm_color_ad == theme_color3

\* values of the customisable colours when the module-level strings are built
import_color_bl == theme_color1
import_color_td == theme_foreground

None == "None"

\* originals captured at import
nm_default_css_menu == <<"orig:mw.styleSheet">>
nm_default_css_top == <<"orig:toolbar._css">>
nm_default_css_body(ver) == IF ver = "2.0" THEN <<"orig:reviewer._css">> ELSE <<>>
nm_default_reviewer_html == <<"orig:reviewer._revHtml">>
nm_default_css_bottom == <<"orig:reviewer._bottomCSS">>
nm_default_css_decks == <<"orig:deckBrowser._css">>
nm_default_css_decks_bottom == <<"orig:deckBrowser.bottom._css">>
nm_default_css_overview == <<"orig:overview._css">>
nm_default_css_overview_bottom == <<"orig:overview.bottom._css">>
nm_default_css_waiting_screen == <<"orig:sharedCSS">>
DEFLAULT_COLOUR_MARKED == "orig:COLOUR_MARKED"
DEFLAULT_COLOUR_SUSPENDED == "orig:COLOUR_SUSPENDED"

NM_ERROR_NO_PROFILE == "showWarning(NM_ERROR_NO_PROFILE)"
NM_DIALOGS_OPEN == "showWarning(Night mode can not be switched when the dialogs are open)"

(***************************************************************************)
(* CSS builders.  "bg:" / "fg:" precede an embedded customisable colour.   *)
(***************************************************************************)
nm_make_css_custom_colors_string(td, bl) == <<"color:", "fg:", td, "background:", "bg:", bl>>

nm_css_custom_color_map == <<"font[color=old]{color:new!important}">>

nm_card_color_css(td) == <<".card{color:", "fg:", td, "!important;background-color:#blue!important}">>

nm_body_color_css(td) == <<"body{color:", "fg:", td, "!important;background-color:!important}">>

nm_css_scrollbar == <<"QScrollBar{", theme_color7, theme_color4, "}">>

nm_css_button_idle == <<"background:", "bg:", import_color_bl, "color:", nm_color_tl>>
nm_css_buttons == <<"button{">> \o nm_css_button_idle \o <<"}button:hover{", nm_color_ad, "}button:active{", nm_color_al, "}">>
nm_css_color_replacer == <<"font[color=#007700]{color:#0099CC}">>

nm_css_bottom ==
    nm_css_buttons \o nm_css_color_replacer \o
    <<"body,#outer{background:", "bg:", import_color_bl, "}.stattxt{color:", "fg:", import_color_td, "}">>

nm_css_top ==
    <<"html,#header{">> \o nm_make_css_custom_colors_string(import_color_td, import_color_bl) \o
    <<"}body,#header{">> \o nm_make_css_custom_colors_string(import_color_td, import_color_bl) \o
    <<"}.hitem{color:", nm_color_tl, "}">>

nm_css_ilatex == <<".latex{filter:invert(1)}">>
nm_css_iimage == <<"img{filter:invert(1)}">>
nm_css_body == <<".card input{...}">>
nm_css_decks == nm_css_buttons \o nm_css_color_replacer \o <<"a{color:", nm_color_tl, "}">>
nm_css_other_bottoms ==
    nm_css_buttons \o <<"#header{background:", "bg:", import_color_bl, "color:", "fg:", import_color_td, "}">>
nm_css_overview == nm_css_buttons \o <<".descfont{}">>
nm_css_menu ==
    <<"QMenuBar,QMenu{background-color:", "bg:", import_color_bl, "color:", "fg:", import_color_td, "}">>

\* styles of the dialogs
NM_DOWN_ARROW_ICON_PATH == ":/icons/gears.png"

nm_encode_class_name(string) == "ID" \o string

nm_css_qt_buttons(restrict_to_parent, restrict_to) ==
    <<restrict_to_parent, "QPushButton", restrict_to, "{">> \o nm_css_button_idle \o
    <<"}:hover{", nm_color_ad, "}:pressed{", nm_color_al, "}:focus{outline}">>

nm_dialog_css ==
    <<"QLabel{color:", theme_color7, "}QDialog{background:", theme_color1,
      "}QFontComboBox{", nm_color_al, NM_DOWN_ARROW_ICON_PATH, "}QTabWidget{", nm_color_al, "}">> \o
    nm_css_qt_buttons("QTabWidget", "")

nm_css_completer == <<"selection-background-color:", nm_color_al>>

nm_css_qt_mid_buttons == <<"QLineEdit{background:#fff;", nm_color_al, "}">>

nm_browser_table_css(td) == <<"QTableView{gridline-color:", "fg:", td, nm_color_al, "}">>

nm_browser_table_header_css == <<"QHeaderView{background:", theme_color1, nm_color_al, "}">>

nm_browser_search_box_css == <<"QComboBox{", nm_color_al, NM_DOWN_ARROW_ICON_PATH, "}">>

nm_css_browser ==
    <<"QSplitter::handle{", theme_color1, "}#widget{", theme_color1, "}QTreeView{",
      theme_color0, theme_color7, nm_color_al, "}">>

(***************************************************************************)
(* State                                                                   *)
(***************************************************************************)
VARIABLES
    appVersion,  \* aqt.appVersion prefix: "2.0" or "2.1"
    nm,          \* module globals of Night_Mode.py
    menu,        \* nm_menu_* globals: <<>> (None) or <<checked>> (a QAction)
    mw,          \* host attributes the add-on patches
    profile,     \* mw.pm.profile: key -> <<>> (absent) or <<value>>
    pm_open,     \* the host has a profile open
    dialogs,     \* some dialog of aqt.dialogs._dialogs is open
    calls,       \* host calls made by the last handler
    ret,         \* value returned by the last nm_on / nm_off: <<>> if neither ran
    exc,         \* exception that ended the last handler, None if it returned
    last,        \* the last handler: op, and what the claims need of the state it was called in
    \* version 2
    app,         \* NightMode: profile_loaded, config.state_on, config.disabled_stylers
    replaced,    \* styler name -> its target's attributes are currently replaced
    mw_state,    \* mw.state, the screen of the main window
    app_calls,   \* calls made by the last version 2 handler
    app_ret,     \* value returned by the last NightMode.refresh: <<>> if none ran
    app_last,    \* the last version 2 handler and its reload argument
    \* rendered card content
    web,         \* version 1: mw.reviewer.web: the card side shown, document.body.className
    qa,          \* version 2: the last prepareQA: context, html given, html returned,
                 \* and the body class of the page once its scripts have run
    dialog          \* version 1: the dialog the last wrapped dialog function ran on

v1vars == <<appVersion, nm, menu, mw, profile, pm_open, dialogs, calls, ret, exc, last>>
v2vars == <<app, replaced, mw_state, app_calls, app_ret, app_last>>
webvars == <<web, qa, dialog>>
vars == <<v1vars, v2vars, webvars>>

Keys == {"nm_state_on", "nm_enable_in_dialogs", "nm_invert_image", "nm_invert_latex",
         "nm_transparent_latex", "nm_color_bl", "nm_color_td"}

OptBool == {<<>>, <<TRUE>>, <<FALSE>>}
OptColor == {<<>>} \cup {<<c>> : c \in PickedColors}

\* contents a stored profile can have: each key absent or holding a value
ProfileDicts ==
    [nm_state_on : OptBool, nm_enable_in_dialogs : OptBool, nm_invert_image : OptBool,
     nm_invert_latex : OptBool, nm_transparent_latex : OptBool,
     nm_color_bl : OptColor, nm_color_td : OptColor]

EmptyProfile == [k \in Keys |-> <<>>]

\* contents of the profiles of an installation that only ever ran this version:
\* a new profile has none of the keys, a used one holds what nm_save wrote (the
\* three inversion settings have no menu entry and stay off)
SessionDicts ==
    {EmptyProfile} \cup
    [nm_state_on : {<<TRUE>>, <<FALSE>>}, nm_enable_in_dialogs : {<<TRUE>>, <<FALSE>>},
     nm_invert_image : {<<FALSE>>}, nm_invert_latex : {<<FALSE>>},
     nm_transparent_latex : {<<FALSE>>},
     nm_color_bl : {<<c>> : c \in {theme_color1} \cup PickedColors},
     nm_color_td : {<<c>> : c \in {theme_color7} \cup PickedColors}]

\* dict.get(key, default)
Get(d, key, default) == IF d[key] = <<>> THEN default ELSE d[key][1]

\* the seven settings as the module holds them
Settings(g) == [k \in Keys |-> g[k]]

(***************************************************************************)
(* Version 1 operations.  m is the add-on's view of the world while a      *)
(* handler runs: [nm, menu, mw, calls, ret, exc].  Once exc is set the     *)
(* rest of the handler is skipped.                                         *)
(***************************************************************************)
Machine == [nm |-> nm, menu |-> menu, mw |-> mw, calls |-> <<>>, ret |-> <<>>, exc |-> None]

Call(m, c) == IF m.exc # None THEN m ELSE [m EXCEPT !.calls = Append(@, c)]

\* action.setChecked(v); None has no setChecked
setChecked(m, action, v) ==
    IF m.exc # None THEN m
    ELSE IF m.menu[action] = <<>> THEN [m EXCEPT !.exc = "AttributeError"]
    ELSE [m EXCEPT !.menu[action] = <<v>>]

nm_refresh_css_custom_colors_string(m) ==
    [m EXCEPT !.nm.nm_css_custom_colors =
        nm_make_css_custom_colors_string(m.nm.nm_color_td, m.nm.nm_color_bl)]

nm_make_latex_transparent(m) ==
    IF m.exc # None THEN m ELSE [m EXCEPT !.mw.latex_transparent = TRUE]

\* "Reload current screen": when the main window shows the reviewer, the deck
\* browser or the overview, that screen is rendered again from the attributes just
\* assigned; none of them is assigned here
ReloadScreen(m) == Call(m, "reload current screen")

nm_append_to_styles(m, ver, bottom, body, top, decks, other_bottoms, overview, menucss, waiting_screen) ==
    LET body1 == IF m.nm.nm_invert_image THEN body \o nm_css_iimage ELSE body
        body2 == IF m.nm.nm_invert_latex THEN body1 \o nm_css_ilatex ELSE body1
        m1 == [m EXCEPT
                !.mw.styleSheet = nm_default_css_menu \o menucss,
                !.mw.toolbar_css = nm_default_css_top \o top,
                !.mw.reviewer_bottomCSS = nm_default_css_bottom \o bottom,
                !.mw.reviewer_css =
                    IF ver # "2.1" THEN nm_default_css_body(ver) \o body2 \o nm_css_scrollbar ELSE @,
                !.mw.reviewer_revHtml =
                    IF ver # "2.1" THEN @
                    ELSE nm_default_reviewer_html \o <<"<style>">> \o body2 \o <<"</style>">>,
                !.mw.deckBrowser_css = nm_default_css_decks \o decks,
                !.mw.deckBrowser_bottom_css = nm_default_css_decks_bottom \o other_bottoms,
                !.mw.overview_css = nm_default_css_overview \o overview,
                !.mw.overview_bottom_css = nm_default_css_overview_bottom \o other_bottoms,
                !.mw.sharedCSS = nm_default_css_waiting_screen \o waiting_screen]
    IN  Call(ReloadScreen(m1), "toolbar.draw")

\* mutant of nm_on: nm_state_on is set before the profile check
nm_on_sets_state_first(m, ver) ==
    IF ~m.nm.nm_profile_loaded
    THEN [Call([m EXCEPT !.nm.nm_state_on = TRUE], NM_ERROR_NO_PROFILE) EXCEPT !.ret = <<FALSE>>]
    ELSE LET m1 == [m EXCEPT !.nm.nm_state_on = TRUE,
                             !.mw.COLOUR_MARKED = "#D9B2E9",
                             !.mw.COLOUR_SUSPENDED = "#FFFFB2"]
             td == m1.nm.nm_color_td
             m2 == nm_append_to_styles(m1, ver,
                        nm_css_bottom,
                        nm_css_body \o nm_card_color_css(td) \o nm_css_custom_color_map,
                        nm_css_top,
                        nm_css_decks \o nm_body_color_css(td),
                        nm_css_other_bottoms,
                        nm_css_overview \o nm_body_color_css(td),
                        nm_css_menu,
                        nm_css_buttons \o nm_body_color_css(td))
             m3 == setChecked(m2, "nm_menu_switch", TRUE)
         IN  [m3 EXCEPT !.ret = <<TRUE>>]

\* the except branch is taken only when a host call raises
nm_on(m, ver) ==
    IF ~m.nm.nm_profile_loaded
    THEN [Call(m, NM_ERROR_NO_PROFILE) EXCEPT !.ret = <<FALSE>>]
    ELSE LET m1 == [m EXCEPT !.nm.nm_state_on = TRUE,
                             !.mw.COLOUR_MARKED = "#D9B2E9",
                             !.mw.COLOUR_SUSPENDED = "#FFFFB2"]
             td == m1.nm.nm_color_td
             m2 == nm_append_to_styles(m1, ver,
                        nm_css_bottom,
                        nm_css_body \o nm_card_color_css(td) \o nm_css_custom_color_map,
                        nm_css_top,
                        nm_css_decks \o nm_body_color_css(td),
                        nm_css_other_bottoms,
                        nm_css_overview \o nm_body_color_css(td),
                        nm_css_menu,
                        nm_css_buttons \o nm_body_color_css(td))
             m3 == setChecked(m2, "nm_menu_switch", TRUE)
         IN  [m3 EXCEPT !.ret = <<TRUE>>]

\* mutant of nm_off: nm_state_on is assigned as a local, the global stays
nm_off_keeps_state(m, ver) ==
    IF ~m.nm.nm_profile_loaded
    THEN [Call(m, NM_ERROR_NO_PROFILE) EXCEPT !.ret = <<FALSE>>]
    ELSE LET m1 == [m EXCEPT !.mw.COLOUR_MARKED = DEFLAULT_COLOUR_MARKED,
                             !.mw.COLOUR_SUSPENDED = DEFLAULT_COLOUR_SUSPENDED]
             m2 == nm_append_to_styles(m1, ver, <<>>, <<>>, <<>>, <<>>, <<>>, <<>>, <<>>, <<>>)
             m3 == setChecked(m2, "nm_menu_switch", FALSE)
         IN  [m3 EXCEPT !.ret = <<TRUE>>]

nm_off(m, ver) ==
    IF ~m.nm.nm_profile_loaded
    THEN [Call(m, NM_ERROR_NO_PROFILE) EXCEPT !.ret = <<FALSE>>]
    ELSE LET m1 == [m EXCEPT !.nm.nm_state_on = FALSE,
                             !.mw.COLOUR_MARKED = DEFLAULT_COLOUR_MARKED,
                             !.mw.COLOUR_SUSPENDED = DEFLAULT_COLOUR_SUSPENDED]
             m2 == nm_append_to_styles(m1, ver, <<>>, <<>>, <<>>, <<>>, <<>>, <<>>, <<>>, <<>>)
             m3 == setChecked(m2, "nm_menu_switch", FALSE)
         IN  [m3 EXCEPT !.ret = <<TRUE>>]

\* mutant of nm_switch: the Anki version is not tested
nm_switch_any_version(m, ver, dlg) ==
    IF dlg
    THEN Call(m, NM_DIALOGS_OPEN)
    ELSE IF m.nm.nm_state_on THEN nm_off(m, ver) ELSE nm_on(m, ver)

\* is_active_dialog is a list on Anki 2.0 (Python 2), truthy iff a dialog is open;
\* on 2.1 the conjunction is already false at appVersion.startswith('2.0')
nm_switch(m, ver, dlg) ==
    IF ver = "2.0" /\ dlg
    THEN Call(m, NM_DIALOGS_OPEN)
    ELSE IF m.nm.nm_state_on THEN nm_off(m, ver) ELSE nm_on(m, ver)

nm_endial(m) ==
    IF m.nm.nm_enable_in_dialogs
    THEN [m EXCEPT !.nm.nm_enable_in_dialogs = FALSE]
    ELSE [m EXCEPT !.nm.nm_enable_in_dialogs = TRUE]

nm_refresh(m, ver) ==
    LET m1 == nm_refresh_css_custom_colors_string(m)
    IN  IF m1.nm.nm_state_on THEN nm_on(m1, ver) ELSE nm_off(m1, ver)

\* mutant of nm_save: one key is not written
nm_save_without_tlatex(g, d) ==
    [d EXCEPT !["nm_state_on"] = <<g.nm_state_on>>,
              !["nm_enable_in_dialogs"] = <<g.nm_enable_in_dialogs>>,
              !["nm_invert_image"] = <<g.nm_invert_image>>,
              !["nm_invert_latex"] = <<g.nm_invert_latex>>,
              !["nm_color_bl"] = <<g.nm_color_bl>>,
              !["nm_color_td"] = <<g.nm_color_td>>]

\* the profile dictionary after nm_save
nm_save(g, d) ==
    [d EXCEPT !["nm_state_on"] = <<g.nm_state_on>>,
              !["nm_enable_in_dialogs"] = <<g.nm_enable_in_dialogs>>,
              !["nm_invert_image"] = <<g.nm_invert_image>>,
              !["nm_invert_latex"] = <<g.nm_invert_latex>>,
              !["nm_transparent_latex"] = <<g.nm_transparent_latex>>,
              !["nm_color_bl"] = <<g.nm_color_bl>>,
              !["nm_color_td"] = <<g.nm_color_td>>]

\* mutant of nm_load_settings: the text colour is read from the background's key
nm_load_settings_same_key(m, d) ==
    [m EXCEPT
        !.nm.nm_state_on = Get(d, "nm_state_on", TRUE),
        !.nm.nm_invert_image = Get(d, "nm_invert_image", FALSE),
        !.nm.nm_invert_latex = Get(d, "nm_invert_latex", FALSE),
        !.nm.nm_color_bl = Get(d, "nm_color_bl", theme_color1),
        !.nm.nm_color_td = Get(d, "nm_color_bl", theme_color7),
        !.nm.nm_enable_in_dialogs = Get(d, "nm_enable_in_dialogs", TRUE),
        !.nm.nm_transparent_latex = Get(d, "nm_transparent_latex", FALSE)]

\* the seven assignments at the head of nm_load
nm_load_settings(m, d) ==
    [m EXCEPT
        !.nm.nm_state_on = Get(d, "nm_state_on", TRUE),
        !.nm.nm_invert_image = Get(d, "nm_invert_image", FALSE),
        !.nm.nm_invert_latex = Get(d, "nm_invert_latex", FALSE),
        !.nm.nm_color_bl = Get(d, "nm_color_bl", theme_color1),
        !.nm.nm_color_td = Get(d, "nm_color_td", theme_color7),
        !.nm.nm_enable_in_dialogs = Get(d, "nm_enable_in_dialogs", TRUE),
        !.nm.nm_transparent_latex = Get(d, "nm_transparent_latex", FALSE)]

nm_load(m, ver, d) ==
    LET m1 == nm_load_settings(m, d)
        m2 == nm_refresh_css_custom_colors_string(m1)
        m3 == [m2 EXCEPT !.nm.nm_profile_loaded = TRUE]
        m4 == IF m3.nm.nm_state_on THEN nm_on(m3, ver) ELSE m3
        m5 == IF m4.nm.nm_invert_image THEN setChecked(m4, "nm_menu_iimage", TRUE) ELSE m4
        m6 == IF m5.nm.nm_invert_latex THEN setChecked(m5, "nm_menu_ilatex", TRUE) ELSE m5
        m7 == IF m6.nm.nm_enable_in_dialogs THEN setChecked(m6, "nm_menu_endial", TRUE) ELSE m6
        m8 == IF m7.nm.nm_transparent_latex
              THEN nm_make_latex_transparent(setChecked(m7, "nm_menu_tlatex", TRUE))
              ELSE m7
    IN  m8

(***************************************************************************)
(* The class toggling scripts.  A class string is a sequence of tokens:    *)
(* class names and " "; no token is a part of "night_mode", so that        *)
(* indexOf("night_mode") finds it exactly where the token stands.          *)
(***************************************************************************)
night_mode == "night_mode"

\* current_classes.indexOf("night_mode"): 0 stands for -1
indexOf(cls, tok) ==
    IF \E i \in 1..Len(cls) : cls[i] = tok
    THEN CHOOSE i \in 1..Len(cls) : cls[i] = tok /\ \A j \in 1..(i - 1) : cls[j] # tok
    ELSE 0

\* current_classes.replace("night_mode", ""): a string pattern replaces the first match
replace_first(cls, tok) ==
    LET i == indexOf(cls, tok)
    IN  IF i = 0 THEN cls ELSE SubSeq(cls, 1, i - 1) \o SubSeq(cls, i + 1, Len(cls))

\* mutant of add_night_mode_class: the class is appended without the indexOf test
add_night_mode_class_always(cls) == cls \o <<" ", night_mode>>

\* the script of the on branch, run on document.body.className
add_night_mode_class(cls) ==
    IF indexOf(cls, night_mode) = 0 THEN cls \o <<" ", night_mode>> ELSE cls

\* the script of the off branch
remove_night_mode_class(cls) ==
    IF indexOf(cls, night_mode) # 0 THEN replace_first(cls, night_mode) ELSE cls

\* the page runs a script
eval(javascript, cls) ==
    IF javascript = "add_night_mode_class" THEN add_night_mode_class(cls)
    ELSE IF javascript = "remove_night_mode_class" THEN remove_night_mode_class(cls)
    ELSE cls

\* version 1: the javascript handed to web_object.eval
take_care_of_night_class(g) ==
    IF g.nm_state_on THEN "add_night_mode_class" ELSE "remove_night_mode_class"

\* the class the host gives the body of a card
bodyclass == <<"card", " ", "card1">>

(***************************************************************************)
(* Dialog hooks.  d is a dialog as the wrapped host function left it:      *)
(* the style sheet of each widget, the browser toolbar's css, the scripts  *)
(* run in the editor's web view, fieldsArea's autoFillBackground and the   *)
(* value of Browser._cardInfoData.                                         *)
(***************************************************************************)
Widgets ==
    {"self", "parentWindow", "tags.completer.popup", "widget", "form.buttonBox",
     "form.horizontalLayout.0", "form.horizontalLayout.1", "form.line", "form.tableView",
     "form.tableView.horizontalHeader", "form.searchEdit", "form.searchButton",
     "form.previewButton"}

\* the widgets of AddCards.form.horizontalLayout
horizontalLayout == <<"form.horizontalLayout.0", "form.horizontalLayout.1">>

\* fields of the note in the editor
note_fields == <<"Front", "Back">>

DialogOriginal ==
    [sheets |-> [w \in Widgets |-> <<"orig:" \o w>>],
     toolbar_css |-> <<"orig:browser.toolbar._css">>,
     evals |-> <<>>,
     autoFillBackground |-> TRUE,
     cardInfoData |-> <<<<"orig:rep">>, "orig:cs">>]

setStyleSheet(d, w, css) == [d EXCEPT !.sheets[w] = css]

RECURSIVE nm_set_style_to_objects_inside(_, _, _)
nm_set_style_to_objects_inside(d, layout, style) ==
    IF layout = <<>> THEN d
    ELSE nm_set_style_to_objects_inside(setStyleSheet(d, Head(layout), style), Tail(layout), style)

\* err: editor.note.dupeOrEmpty()
nm_style_fields(g, d, err) ==
    IF g.nm_state_on /\ g.nm_enable_in_dialogs
    THEN LET cols0 == [i \in 1..Len(note_fields) |-> nm_color_tl]
             cols == IF err = 2 THEN [cols0 EXCEPT ![1] = "#A96D06"] ELSE cols0
         IN  [d EXCEPT !.evals = @ \o <<<<IF err = 2 THEN "showDupes" ELSE "hideDupes">>,
                                         <<"setBackgrounds">> \o cols>>]
    ELSE d

\* mutant of nm_editor_init_after: the condition reads nm_state_on only
nm_editor_init_after_state_only(g, d) ==
    IF g.nm_state_on
    THEN LET editor_css == nm_dialog_css \o <<"#widget{background:", theme_color1, "color:", theme_color7, "}">>
             d1 == setStyleSheet(d, "parentWindow", editor_css)
             d2 == setStyleSheet(d1, "tags.completer.popup", nm_css_completer)
         IN  setStyleSheet(d2, "widget",
                 nm_css_qt_mid_buttons \o
                 nm_css_qt_buttons("", "#" \o nm_encode_class_name("fields")) \o
                 nm_css_qt_buttons("", "#" \o nm_encode_class_name("layout")))
    ELSE d

nm_editor_init_after(g, d) ==
    IF g.nm_state_on /\ g.nm_enable_in_dialogs
    THEN LET editor_css == nm_dialog_css \o <<"#widget{background:", theme_color1, "color:", theme_color7, "}">>
             d1 == setStyleSheet(d, "parentWindow", editor_css)
             d2 == setStyleSheet(d1, "tags.completer.popup", nm_css_completer)
         IN  setStyleSheet(d2, "widget",
                 nm_css_qt_mid_buttons \o
                 nm_css_qt_buttons("", "#" \o nm_encode_class_name("fields")) \o
                 nm_css_qt_buttons("", "#" \o nm_encode_class_name("layout")))
    ELSE d

nm_edit_current_init_after(g, d) ==
    IF g.nm_state_on /\ g.nm_enable_in_dialogs
    THEN LET x == d.sheets["self"]
             d1 == setStyleSheet(d, "self", x \o nm_css_scrollbar)
         IN  setStyleSheet(d1, "form.buttonBox", nm_css_qt_buttons("", ""))
    ELSE d

nm_browser_init_after(g, d) ==
    IF g.nm_state_on /\ g.nm_enable_in_dialogs
    THEN LET x == d.sheets["self"]
             d1 == setStyleSheet(d, "self", x \o nm_css_menu \o nm_css_browser)
             d2 == [d1 EXCEPT !.toolbar_css = @ \o nm_css_top]
             d3 == setStyleSheet(d2, "form.tableView", nm_browser_table_css(g.nm_color_td))
             d4 == setStyleSheet(d3, "form.tableView.horizontalHeader", nm_browser_table_header_css)
             d5 == setStyleSheet(d4, "form.searchEdit", nm_browser_search_box_css)
             d6 == setStyleSheet(d5, "form.searchButton", nm_css_qt_buttons("", ""))
         IN  setStyleSheet(d6, "form.previewButton", nm_css_qt_buttons("", ""))
    ELSE d

\* wraps Browser._cardInfoData "around": (rep, cs) is what _old returned
nm_browser_card_info_after(g, d) ==
    LET rep == d.cardInfoData[1]
        cs == d.cardInfoData[2]
    IN  IF g.nm_state_on /\ g.nm_enable_in_dialogs
        THEN [d EXCEPT !.cardInfoData =
                <<rep \o <<"<style>*{">> \o g.nm_css_custom_colors \o <<"}div{border-color:#fff}">> \o
                  nm_css_color_replacer \o nm_css_scrollbar \o <<"</style>">>, cs>>]
        ELSE [d EXCEPT !.cardInfoData = <<rep, cs>>]

nm_add_init_after(g, d) ==
    IF g.nm_state_on /\ g.nm_enable_in_dialogs
    THEN LET d1 == setStyleSheet(d, "form.buttonBox", nm_css_qt_buttons("", ""))
             d2 == nm_set_style_to_objects_inside(d1, horizontalLayout, nm_css_qt_buttons("", ""))
             d3 == setStyleSheet(d2, "form.line", <<"#line{border:0px solid transparent}">>)
         IN  [d3 EXCEPT !.autoFillBackground = FALSE]
    ELSE d

\* a checkable QAction flips its checked state when the user triggers it
Trigger(m, action) == [m EXCEPT !.menu[action] = <<~@[1]>>]

(***************************************************************************)
(* Version 2: StylingManager and NightMode                                 *)
(***************************************************************************)
\* number of stylers in Styler.members
NumStylers == 3

\* StylingManager.stylers, in list order
stylers == [i \in 1..NumStylers |-> "styler" \o ToString(i)]

StylerNames == {stylers[i] : i \in 1..NumStylers}

ERROR_NO_PROFILE == "alert(ERROR_NO_PROFILE)"

AppScreens == {"deckBrowser", "overview", "review"}

\* a: [app, replaced, mw_state, calls, ret] while a handler runs
App == [app |-> app, replaced |-> replaced, mw_state |-> mw_state, calls |-> <<>>, ret |-> <<>>]

AppCall(a, c) == [a EXCEPT !.calls = Append(@, c)]

\* Styler.replace_attributes: the target's attributes now carry the night style
replace_attributes(a, name) ==
    [AppCall(a, <<"replace_attributes", name>>) EXCEPT !.replaced[name] = TRUE]

\* Styler.restore_attributes: the target's attributes are the originals again
restore_attributes(a, name) ==
    [AppCall(a, <<"restore_attributes", name>>) EXCEPT !.replaced[name] = FALSE]

\* StylingManager.active_stylers, as the list of positions in stylers
active_stylers(a) ==
    SelectSeq([i \in 1..NumStylers |-> i], LAMBDA i : stylers[i] \notin a.app.disabled_stylers)

RECURSIVE ReplaceEach(_, _)
ReplaceEach(a, todo) ==
    IF todo = <<>> THEN a
    ELSE ReplaceEach(replace_attributes(a, stylers[Head(todo)]), Tail(todo))

RECURSIVE RestoreEach(_, _)
RestoreEach(a, todo) ==
    IF todo = <<>> THEN a
    ELSE RestoreEach(restore_attributes(a, stylers[Head(todo)]), Tail(todo))

\* mutant of replace: every styler is replaced, not only the active ones
replace_all(a) == ReplaceEach(a, [i \in 1..NumStylers |-> i])

\* StylingManager.replace
replace(a) == ReplaceEach(a, active_stylers(a))

\* mutant of restore: only the active stylers are restored
restore_active(a) == RestoreEach(a, active_stylers(a))

\* StylingManager.restore
restore(a) == RestoreEach(a, [i \in 1..NumStylers |-> i])

\* NightMode.on
on(a) == replace(a)

\* NightMode.off
off(a) == restore(a)

moveToState(a, s) == [AppCall(a, <<"moveToState", s>>) EXCEPT !.mw_state = s]

update_menu(a) == AppCall(a, <<"update_checkboxes">>)

\* mutant of refresh: the profile check comes after the switch
refresh_checks_late(a, reload) ==
    LET state == a.app.state_on
        a1 == IF state THEN on(IF reload THEN off(a) ELSE a) ELSE off(a)
    IN  IF ~a.app.profile_loaded
        THEN [AppCall(a1, <<ERROR_NO_PROFILE>>) EXCEPT !.ret = <<None>>]
        ELSE [update_menu(AppCall(a1, <<"toolbar.draw">>)) EXCEPT !.ret = <<"True">>]

refresh(a, reload) ==
    LET state == a.app.state_on
    IN  IF ~a.app.profile_loaded
        THEN [AppCall(a, <<ERROR_NO_PROFILE>>) EXCEPT !.ret = <<None>>]
        ELSE LET a1 == IF state
                       THEN on(IF reload THEN off(a) ELSE a)
                       ELSE off(a)
                 a2 == IF a1.mw_state = "review"
                       THEN moveToState(moveToState(a1, "overview"), "review")
                       ELSE a1
                 a3 == IF a2.mw_state = "deckBrowser" THEN AppCall(a2, <<"deckBrowser.refresh">>) ELSE a2
                 a4 == IF a3.mw_state = "overview" THEN AppCall(a3, <<"overview.refresh">>) ELSE a3
                 a5 == update_menu(AppCall(a4, <<"toolbar.draw">>))
             IN  [a5 EXCEPT !.ret = <<"True">>]

\* NightMode.night_class_injection (card and context are not read)
night_class_injection(a, html) ==
    LET javascript == IF a.app.state_on THEN "add_night_mode_class"
                      ELSE "remove_night_mode_class"
    IN  <<"<script>", javascript, "</script>">> \o html

\* NightMode.load, with the values config.load() reads from the profile
load(a, state_on, disabled) ==
    LET a1 == [a EXCEPT !.app.state_on = state_on, !.app.disabled_stylers = disabled,
                        !.app.profile_loaded = TRUE]
    IN  update_menu(refresh(a1, FALSE))

\* NightMode.__init__
InitV2 ==
    /\ app = [profile_loaded |-> FALSE, state_on |-> FALSE, disabled_stylers |-> {}]
    /\ replaced = [n \in StylerNames |-> FALSE]
    /\ mw_state = "deckBrowser"
    /\ app_calls = <<>>
    /\ app_ret = <<>>
    /\ app_last = [op |-> "init", reload |-> FALSE]

AppCommitVars(a, op, reload) ==
    /\ app' = a.app
    /\ replaced' = a.replaced
    /\ mw_state' = a.mw_state
    /\ app_calls' = a.calls
    /\ app_ret' = a.ret
    /\ app_last' = [op |-> op, reload |-> reload]

AppCommit(a, op, reload) ==
    /\ AppCommitVars(a, op, reload)
    /\ UNCHANGED <<webvars, v1vars>>

\* hook "profileLoaded"
AppLoad ==
    \E on_ \in BOOLEAN, d \in SUBSET StylerNames :
        AppCommit(load(App, on_, d), "load", FALSE)

\* hook "profileLoaded" for a profile in which no styler is disabled
AppLoadEnabled ==
    \E on_ \in BOOLEAN :
        AppCommit(load(App, on_, {}), "load", FALSE)

\* config.state_on is changed, then NightMode.refresh runs
StateOnChanged ==
    \E reload \in BOOLEAN :
        AppCommit(refresh([App EXCEPT !.app.state_on = ~@], reload), "state_on", reload)

\* config.disabled_stylers is changed, then NightMode.refresh runs
DisabledStylersChanged ==
    \E d \in (SUBSET StylerNames) \ {app.disabled_stylers}, reload \in BOOLEAN :
        AppCommit(refresh([App EXCEPT !.app.disabled_stylers = d], reload), "disabled_stylers", reload)

\* host: the main window moves to another screen
MoveToState ==
    /\ mw_state' \in AppScreens \ {mw_state}
    /\ UNCHANGED <<webvars, v1vars, app, replaced, app_calls, app_ret, app_last>>


(***************************************************************************)
(* Version 1: initial state (the module has been imported, nm_onload and   *)
(* nm_setup_menu have run, no profile is loaded) and handlers              *)
(***************************************************************************)
nm_globals ==
    [nm_state_on |-> FALSE, nm_enable_in_dialogs |-> TRUE, nm_invert_image |-> FALSE,
     nm_invert_latex |-> FALSE, nm_transparent_latex |-> FALSE, nm_profile_loaded |-> FALSE,
     nm_color_bl |-> theme_color1, nm_color_td |-> theme_foreground,
     nm_css_custom_colors |-> nm_make_css_custom_colors_string(theme_foreground, theme_color1)]

\* nm_menu_iimage, nm_menu_ilatex and nm_menu_tlatex are never assigned a QAction
nm_setup_menu ==
    [nm_menu_switch |-> <<FALSE>>, nm_menu_endial |-> <<FALSE>>,
     nm_menu_iimage |-> <<>>, nm_menu_ilatex |-> <<>>, nm_menu_tlatex |-> <<>>]

HostOriginal(ver) ==
    [styleSheet |-> nm_default_css_menu,
     toolbar_css |-> nm_default_css_top,
     reviewer_bottomCSS |-> nm_default_css_bottom,
     reviewer_css |-> <<"orig:reviewer._css">>,
     reviewer_revHtml |-> nm_default_reviewer_html,
     deckBrowser_css |-> nm_default_css_decks,
     deckBrowser_bottom_css |-> nm_default_css_decks_bottom,
     overview_css |-> nm_default_css_overview,
     overview_bottom_css |-> nm_default_css_overview_bottom,
     sharedCSS |-> nm_default_css_waiting_screen,
     COLOUR_MARKED |-> DEFLAULT_COLOUR_MARKED,
     COLOUR_SUSPENDED |-> DEFLAULT_COLOUR_SUSPENDED,
     latex_transparent |-> FALSE]

\* op: the handler; saved: <<the settings nm_save was called with>>, kept by an
\* nm_load of the same dictionary right after it; was_on: <<nm_state_on when
\* nm_switch was called>>; was_on2: was_on of the nm_switch right before this one
Last(op) == [op |-> op, saved |-> <<>>, was_on |-> <<>>, was_on2 |-> <<>>]

InitV1 ==
    /\ appVersion \in {"2.0", "2.1"}
    /\ nm = nm_globals
    /\ menu = nm_setup_menu
    /\ mw = HostOriginal(appVersion)
    /\ profile = EmptyProfile
    /\ pm_open = FALSE
    /\ dialogs = FALSE
    /\ calls = <<>>
    /\ ret = <<>>
    /\ exc = None
    /\ last = Last("import")

\* the handler has run: its effects become the state
Commit(m, l) ==
    /\ nm' = m.nm
    /\ menu' = m.menu
    /\ mw' = m.mw
    /\ calls' = m.calls
    /\ ret' = m.ret
    /\ exc' = m.exc
    /\ last' = l

\* hook "unloadProfile": nm_save, then the host closes the profile
UnloadProfile ==
    /\ pm_open
    /\ profile' = nm_save(nm, profile)
    /\ pm_open' = FALSE
    /\ calls' = <<>>
    /\ ret' = <<>>
    /\ exc' = None
    /\ last' = [Last("nm_save") EXCEPT !.saved = <<Settings(nm)>>]
    /\ UNCHANGED <<webvars, v2vars, appVersion, nm, menu, mw, dialogs>>

\* the host opens a profile of D and runs hook "profileLoaded": nm_load
LoadFrom(D) ==
    /\ ~pm_open
    /\ \E d \in D :
        /\ profile' = d
        /\ Commit(nm_load(Machine, appVersion, d),
                  [Last("nm_load") EXCEPT
                     !.saved = IF last.op = "nm_save" /\ d = profile THEN last.saved ELSE <<>>])
    /\ pm_open' = TRUE
    /\ UNCHANGED <<webvars, v2vars, appVersion, dialogs>>

\* the profile just closed is opened again, or another one of this installation
ProfileLoaded == LoadFrom(SessionDicts \cup {profile})

\* the profile just closed (at first: the stored one) is opened again
ProfileReloaded == LoadFrom({profile})

\* "in case of troubles with 'profileLoaded' hook": the host opens a profile and
\* shows the main window, and nm_load does not run
ProfileOpenedWithoutHook ==
    /\ ~pm_open
    /\ ~nm.nm_profile_loaded
    /\ pm_open' = TRUE
    /\ Commit(Machine, Last("host"))
    /\ UNCHANGED <<webvars, v2vars, appVersion, profile, dialogs>>

\* The menu is used while the main window is shown, that is while a profile is open.
\* the user triggers 'Enable night mode' (menu entry or Ctrl+n)
SwitchTriggered ==
    /\ pm_open
    /\ Commit(nm_switch(Trigger(Machine, "nm_menu_switch"), appVersion, dialogs),
              [Last("nm_switch") EXCEPT
                 !.was_on = <<nm.nm_state_on>>,
                 !.was_on2 = IF last.op = "nm_switch" THEN last.was_on ELSE <<>>])
    /\ UNCHANGED <<webvars, v2vars, appVersion, profile, pm_open, dialogs>>

\* the user triggers 'Enable in dialogs'
EndialTriggered ==
    /\ pm_open
    /\ Commit(nm_endial(Trigger(Machine, "nm_menu_endial")), Last("nm_endial"))
    /\ UNCHANGED <<webvars, v2vars, appVersion, profile, pm_open, dialogs>>

\* 'Set background color': the picker returns a valid colour c, or is cancelled
nm_change_color_b ==
    /\ pm_open
    /\ \E c \in PickedColors \cup {"invalid"} :
        IF c # "invalid"
        THEN Commit(nm_refresh([Machine EXCEPT !.nm.nm_color_bl = c], appVersion), Last("nm_change_color_b"))
        ELSE Commit(Machine, Last("nm_change_color_b"))
    /\ UNCHANGED <<webvars, v2vars, appVersion, profile, pm_open, dialogs>>

\* 'Set text color'
nm_change_color_t ==
    /\ pm_open
    /\ \E c \in PickedColors \cup {"invalid"} :
        IF c # "invalid"
        THEN Commit(nm_refresh([Machine EXCEPT !.nm.nm_color_td = c], appVersion), Last("nm_change_color_t"))
        ELSE Commit(Machine, Last("nm_change_color_t"))
    /\ UNCHANGED <<webvars, v2vars, appVersion, profile, pm_open, dialogs>>

\* 'Reset colors'
nm_color_reset ==
    /\ pm_open
    /\ Commit(nm_refresh([Machine EXCEPT !.nm.nm_color_bl = theme_color1,
                                         !.nm.nm_color_td = theme_color7], appVersion),
              Last("nm_color_reset"))
    /\ UNCHANGED <<webvars, v2vars, appVersion, profile, pm_open, dialogs>>

\* host: a managed dialog is opened or the last one closed
DialogsChange ==
    /\ pm_open
    /\ dialogs' = ~dialogs
    /\ Commit(Machine, Last("host"))
    /\ UNCHANGED <<webvars, v2vars, appVersion, profile, pm_open>>

\* hook "showQuestion": the host has put the question into the page and set the
\* body's class, then take_care_of_night_class runs on mw.reviewer.web
showQuestion ==
    /\ pm_open
    /\ web' = [side |-> "question", className |-> eval(take_care_of_night_class(nm), bodyclass)]
    /\ Commit(Call(Machine, "mw.reviewer.web.eval"), Last("showQuestion"))
    /\ UNCHANGED <<qa, dialog, v2vars, appVersion, profile, pm_open, dialogs>>

\* hook "showAnswer": the answer is put into the page the question was shown in
showAnswer ==
    /\ pm_open
    /\ web.side = "question"
    /\ web' = [side |-> "answer", className |-> eval(take_care_of_night_class(nm), web.className)]
    /\ Commit(Call(Machine, "mw.reviewer.web.eval"), Last("showAnswer"))
    /\ UNCHANGED <<qa, dialog, v2vars, appVersion, profile, pm_open, dialogs>>

\* html a card template can render to
CardHtml ==
    {<<>>, <<"<div>front</div>">>, <<"<script>", "template script", "</script>", "<div>front</div>">>}

\* the scripts of a page, in document order
RECURSIVE Scripts(_)
Scripts(html) ==
    IF Len(html) < 3 THEN <<>>
    ELSE IF html[1] = "<script>" /\ html[3] = "</script>"
         THEN <<html[2]>> \o Scripts(SubSeq(html, 4, Len(html)))
         ELSE Scripts(Tail(html))

RECURSIVE EvalAll(_, _)
EvalAll(scripts, cls) ==
    IF scripts = <<>> THEN cls ELSE EvalAll(Tail(scripts), eval(Head(scripts), cls))

\* hook "prepareQA": a card side is rendered, the filter returns the html the page
\* shows; a question resets the body's class, an answer keeps the page's; the
\* scripts of the html run after that (setTimeout 0)
prepareQA ==
    /\ app.profile_loaded
    /\ \E html \in CardHtml, context \in {"reviewQuestion", "reviewAnswer"} :
         /\ context = "reviewAnswer" => qa.context = "reviewQuestion"
         /\ LET out == night_class_injection(App, html)
                cls == IF context = "reviewQuestion" THEN bodyclass ELSE qa.className
            IN  qa' = [context |-> context, html |-> html, out |-> out,
                       className |-> EvalAll(Scripts(out), cls)]
    /\ AppCommitVars(App, "prepareQA", FALSE)
    /\ UNCHANGED <<web, dialog, v1vars>>

\* a wrapped dialog function has run: the host's own, then the add-on's hook
DialogCommit(d, op) ==
    /\ dialog' = d
    /\ Commit(Machine, Last(op))
    /\ UNCHANGED <<web, qa, v2vars, appVersion, profile, pm_open>>

\* Editor.checkValid, in the editor of an open dialog
EditorCheckValid ==
    /\ pm_open /\ dialogs
    /\ \E err \in {0, 1, 2} : DialogCommit(nm_style_fields(nm, DialogOriginal, err), "nm_style_fields")
    /\ UNCHANGED dialogs

\* Editor.__init__, for the editor of an open dialog
EditorInit ==
    /\ pm_open /\ dialogs
    /\ DialogCommit(nm_editor_init_after(nm, DialogOriginal), "nm_editor_init_after")
    /\ UNCHANGED dialogs

\* EditCurrent.__init__: the dialog is open from now on
EditCurrentInit ==
    /\ pm_open
    /\ DialogCommit(nm_edit_current_init_after(nm, DialogOriginal), "nm_edit_current_init_after")
    /\ dialogs' = TRUE

\* Browser.__init__
BrowserInit ==
    /\ pm_open
    /\ DialogCommit(nm_browser_init_after(nm, DialogOriginal), "nm_browser_init_after")
    /\ dialogs' = TRUE

\* Browser._cardInfoData, in the open browser
BrowserCardInfoData ==
    /\ pm_open /\ dialogs
    /\ DialogCommit(nm_browser_card_info_after(nm, DialogOriginal), "nm_browser_card_info_after")
    /\ UNCHANGED dialogs

\* AddCards.__init__
AddCardsInit ==
    /\ pm_open
    /\ DialogCommit(nm_add_init_after(nm, DialogOriginal), "nm_add_init_after")
    /\ dialogs' = TRUE

\* no card has been rendered yet
InitWeb ==
    /\ web = [side |-> "none", className |-> <<>>]
    /\ qa = [context |-> "none", html |-> <<>>, out |-> <<>>, className |-> <<>>]
    /\ dialog = DialogOriginal

NextV1 ==
    \/ UnloadProfile
    \/ ProfileLoaded
    \/ ProfileOpenedWithoutHook
    \/ SwitchTriggered
    \/ EndialTriggered
    \/ nm_change_color_b
    \/ nm_change_color_t
    \/ nm_color_reset
    \/ DialogsChange

\* both versions as constructed; each specification runs one of them
Init == InitV1 /\ InitV2 /\ InitWeb

Spec == Init /\ [][NextV1]_vars

(***************************************************************************)
(* nm_save / nm_load over a stored profile with any content (written by    *)
(* any earlier version of the add-on)                                      *)
(***************************************************************************)
InitLoad ==
    /\ appVersion \in {"2.0", "2.1"}
    /\ nm = nm_globals
    /\ menu = nm_setup_menu
    /\ mw = HostOriginal(appVersion)
    /\ profile \in ProfileDicts
    /\ pm_open = FALSE
    /\ dialogs = FALSE
    /\ calls = <<>>
    /\ ret = <<>>
    /\ exc = None
    /\ last = Last("import")

NextLoad ==
    \/ UnloadProfile
    \/ ProfileReloaded
    \/ SwitchTriggered

InitStored == InitLoad /\ InitV2 /\ InitWeb

SpecLoad == InitStored /\ [][NextLoad]_vars

NextV2 ==
    \/ AppLoad
    \/ StateOnChanged
    \/ DisabledStylersChanged
    \/ MoveToState

\* version 2 runs on Anki 2.1
InitApp == InitV1 /\ appVersion = "2.1" /\ InitV2 /\ InitWeb

SpecV2 == InitApp /\ [][NextV2]_vars

(***************************************************************************)
(* Rendered cards under both versions                                      *)
(***************************************************************************)
NextInject ==
    \/ ProfileReloaded
    \/ SwitchTriggered
    \/ showQuestion
    \/ showAnswer
    \/ AppLoadEnabled
    \/ StateOnChanged
    \/ prepareQA

SpecInject == Init /\ [][NextInject]_vars

(***************************************************************************)
(* Version 1 with its dialogs                                              *)
(***************************************************************************)
NextDialogs ==
    \/ ProfileReloaded
    \/ SwitchTriggered
    \/ EndialTriggered
    \/ nm_change_color_t
    \/ DialogsChange
    \/ EditorCheckValid
    \/ EditorInit
    \/ EditCurrentInit
    \/ BrowserInit
    \/ BrowserCardInfoData
    \/ AddCardsInit

SpecDialogs == Init /\ [][NextDialogs]_vars

(***************************************************************************)
(* Properties                                                              *)
(***************************************************************************)
Has(str, tok) == \E i \in 1..Len(str) : str[i] = tok

Range(seq) == {seq[i] : i \in 1..Len(seq)}

\* the defaults nm_load is to use for absent keys
Default ==
    [nm_state_on |-> TRUE, nm_enable_in_dialogs |-> TRUE, nm_invert_image |-> FALSE,
     nm_invert_latex |-> FALSE, nm_transparent_latex |-> FALSE,
     nm_color_bl |-> theme_color1, nm_color_td |-> theme_color7]

\* the reviewer's body style, where this version of Anki keeps it
ReviewerBody == IF appVersion = "2.1" THEN mw.reviewer_revHtml ELSE mw.reviewer_css

\* which of the five host parts of the claim carry the night style
NightParts ==
    {p \in {"menu", "toolbar", "reviewer", "deckBrowser", "overview"} :
        CASE p = "menu" -> Has(mw.styleSheet, Head(nm_css_menu))
          [] p = "toolbar" -> Has(mw.toolbar_css, Head(nm_css_top))
          [] p = "reviewer" -> Has(ReviewerBody, Head(nm_css_body))
          [] p = "deckBrowser" -> Has(mw.deckBrowser_css, Head(nm_css_decks))
          [] p = "overview" -> Has(mw.overview_css, Head(nm_css_overview))}

NightStylesApplied == NightParts = {"menu", "toolbar", "reviewer", "deckBrowser", "overview"}
NightStylesAbsent == NightParts = {}

\* the styles match the setting: all five parts night when on, none when off
StylesMatch == IF nm.nm_state_on THEN NightStylesApplied ELSE NightStylesAbsent

\* C1: nm_save followed by nm_load on the same profile dictionary leaves each of
\* the seven settings equal to the value it had when nm_save was called.
C1_SaveLoadRoundTrip ==
    (last.op = "nm_load" /\ last.saved # <<>>) => Settings(nm) = last.saved[1]

C1_Witness ==
    /\ last.op = "nm_load" /\ last.saved # <<>>
    /\ nm.nm_invert_image /\ ~nm.nm_invert_latex /\ ~nm.nm_state_on
    /\ nm.nm_color_bl \in PickedColors
    /\ nm.nm_color_td = theme_color7

\* C2: after nm_load every setting holds the stored value of its key if the key is
\* present in the profile and its default if it is absent, whatever the other keys
\* hold; after nm_save all seven keys of the profile hold the current settings.
C2_LoadDefaultsSaveOverwrites ==
    /\ last.op = "nm_load" => \A k \in Keys : nm[k] = Get(profile, k, Default[k])
    /\ last.op = "nm_save" =>
          /\ \A k \in Keys : profile[k] = <<nm[k]>>
          /\ Settings(nm) = last.saved[1]

C2_Witness ==
    /\ last.op = "nm_load"
    /\ profile["nm_state_on"] = <<FALSE>> /\ ~nm.nm_state_on
    /\ profile["nm_enable_in_dialogs"] = <<>> /\ nm.nm_enable_in_dialogs
    /\ profile["nm_invert_latex"] = <<TRUE>> /\ nm.nm_invert_latex
    /\ profile["nm_color_bl"] = <<>> /\ nm.nm_color_bl = theme_color1
    /\ profile["nm_color_td"] # <<>> /\ nm.nm_color_td \in PickedColors

\* C3: after nm_load completes, the night styles are applied to the host (menu
\* stylesheet, toolbar, reviewer, deck browser, overview) if and only if
\* nm_state_on is true.
C3_LoadAppliesIffOn ==
    (last.op = "nm_load" /\ exc = None) => (NightStylesApplied <=> nm.nm_state_on)

\* C4: once an operation has completed with the profile loaded, 'Enable night
\* mode' is checked iff nm_state_on and 'Enable in dialogs' is checked iff
\* nm_enable_in_dialogs.
C4_MenuMirrorsSettings ==
    (pm_open /\ nm.nm_profile_loaded /\ exc = None) =>
        /\ menu.nm_menu_switch = <<nm.nm_state_on>>
        /\ menu.nm_menu_endial = <<nm.nm_enable_in_dialogs>>

\* the conditions of C5 on the call of nm_switch that has just run
SwitchAllowed == nm.nm_profile_loaded /\ (appVersion = "2.1" \/ ~dialogs)

\* C5: with the profile loaded, on Anki 2.1 (or on Anki 2.0 with no dialog open),
\* one call of nm_switch flips nm_state_on and applies the matching styles, and two
\* consecutive calls return nm_state_on to its value before the first call.
C5_SwitchToggles ==
    (last.op = "nm_switch" /\ SwitchAllowed) =>
        /\ nm.nm_state_on = ~last.was_on[1]
        /\ StylesMatch
        /\ ret = <<TRUE>>
        /\ last.was_on2 # <<>> => nm.nm_state_on = last.was_on2[1]

C5_Witness ==
    /\ last.op = "nm_switch" /\ SwitchAllowed
    /\ last.was_on2 = <<TRUE>> /\ last.was_on = <<FALSE>>
    /\ nm.nm_state_on /\ NightStylesApplied
    /\ appVersion = "2.0"

\* the host attributes as captured at import (on Anki 2.1 the reviewer html is the
\* original followed by an empty style element)
HostRestored ==
    mw = [HostOriginal(appVersion) EXCEPT
            !.reviewer_revHtml =
                IF appVersion = "2.1" THEN @ \o <<"<style>", "</style>">> ELSE @,
            !.latex_transparent = mw.latex_transparent]

\* nm_on and then nm_off have just run: two nm_switch in a row, off -> on -> off
OnThenOff ==
    /\ last.op = "nm_switch" /\ nm.nm_profile_loaded
    /\ last.was_on2 = <<FALSE>> /\ last.was_on = <<TRUE>>
    /\ ret = <<TRUE>>

\* C6: with the profile loaded and image and latex inversion both off, nm_on
\* followed by nm_off leaves every patched host attribute and the two browser
\* colours equal to the originals captured at import.
C6_OnOffRoundTrip ==
    (OnThenOff /\ ~nm.nm_invert_image /\ ~nm.nm_invert_latex) => HostRestored

\* what nm_on / nm_off are to do when the profile is not loaded: warn, return
\* False, change nothing
RefusesUnloaded(r) ==
    /\ r.calls = <<NM_ERROR_NO_PROFILE>>
    /\ r.ret = <<FALSE>>
    /\ r.nm = nm /\ r.mw = mw /\ r.menu = menu /\ r.exc = None

\* C7: while nm_profile_loaded is false, nm_on and nm_off each show the
\* NM_ERROR_NO_PROFILE warning, return False, and leave nm_state_on, the host
\* style attributes, the browser colours and the menu checkbox unchanged.
C7_NoProfileNoChange ==
    ~nm.nm_profile_loaded =>
        /\ RefusesUnloaded(nm_on(Machine, appVersion))
        /\ RefusesUnloaded(nm_off(Machine, appVersion))
        /\ ret # <<>> =>
              /\ ret = <<FALSE>> /\ calls = <<NM_ERROR_NO_PROFILE>>
              /\ ~nm.nm_state_on
              /\ mw = HostOriginal(appVersion)

C7_Witness ==
    /\ ~nm.nm_profile_loaded
    /\ last.op = "nm_switch"
    /\ ret = <<FALSE>> /\ calls = <<NM_ERROR_NO_PROFILE>>
    /\ menu.nm_menu_switch = <<TRUE>>

\* names of the stylers whose attributes are currently replaced / that are active
Replaced == {n \in StylerNames : replaced[n]}
Active == StylerNames \ app.disabled_stylers

RefreshOps == {"load", "state_on", "disabled_stylers"}

\* C8: while profile_loaded is false, NightMode.refresh shows the ERROR_NO_PROFILE
\* alert and returns a value that is not True, calls replace_attributes or
\* restore_attributes on no styler, leaves the screen state alone, and neither
\* redraws the toolbar nor updates the menu.
C8_RefreshNeedsProfile ==
    ~app.profile_loaded =>
        /\ \A reload \in BOOLEAN :
              LET r == refresh(App, reload)
              IN  /\ r.calls = <<<<ERROR_NO_PROFILE>>>>
                  /\ r.ret # <<"True">>
                  /\ r.replaced = replaced /\ r.mw_state = mw_state /\ r.app = app
        /\ app_last.op \in RefreshOps =>
              /\ app_calls = <<<<ERROR_NO_PROFILE>>>>
              /\ app_ret = <<None>>
              /\ Replaced = {}

C8_Witness ==
    /\ ~app.profile_loaded
    /\ app_last.op = "state_on" /\ app.state_on
    /\ app_calls = <<<<ERROR_NO_PROFILE>>>>
    /\ mw_state = "review"

\* C9 as stated: after a successful refresh (either value of reload) with night
\* mode on, the replaced stylers are exactly the active ones.
C9_ReplacedIsActive_Original ==
    (app_ret = <<"True">> /\ app.state_on) => Replaced = Active

\* C9, amended: after a successful refresh with night mode on every active styler
\* is replaced, and the replaced stylers are exactly the active ones when that
\* refresh ran with reload=True.
C9_ReplacedIsActive ==
    (app_ret = <<"True">> /\ app.state_on) =>
        /\ Active \subseteq Replaced
        /\ app_last.reload => Replaced = Active

C9_Witness ==
    /\ app_ret = <<"True">> /\ app.state_on
    /\ app_last.op = "disabled_stylers" /\ app_last.reload
    /\ app.disabled_stylers # {} /\ Replaced = Active /\ Active # {}

\* C10: after a successful refresh with config.state_on false, restore_attributes
\* has been called on every styler (the disabled ones too), none is left
\* replaced, and replace_attributes was called on none during that refresh.
C10_OffRestoresAll ==
    (app_ret = <<"True">> /\ ~app.state_on) =>
        /\ Replaced = {}
        /\ \A n \in StylerNames :
              /\ <<"restore_attributes", n>> \in Range(app_calls)
              /\ <<"replace_attributes", n>> \notin Range(app_calls)

C10_Witness ==
    /\ app_ret = <<"True">> /\ ~app.state_on
    /\ app_last.op = "state_on"
    /\ app.disabled_stylers # {}

\* cls, split at " ", has the class c
HasClass(cls, c) ==
    \E i \in 1..Len(cls) :
        /\ cls[i] = c
        /\ i = 1 \/ cls[i - 1] = " "
        /\ i = Len(cls) \/ cls[i + 1] = " "

Count(cls, c) == Cardinality({i \in 1..Len(cls) : cls[i] = c})

\* C11: once the injected script has run, the body has the class night_mode iff
\* the night-mode state is on, and never has it twice; in version 2
\* night_class_injection returns one script element followed by the html it was
\* given, whatever the html and the state.
C11_NightClassInjection ==
    /\ last.op \in {"showQuestion", "showAnswer"} =>
          /\ HasClass(web.className, night_mode) <=> nm.nm_state_on
          /\ Count(web.className, night_mode) <= 1
    /\ app_last.op = "prepareQA" =>
          /\ HasClass(qa.className, night_mode) <=> app.state_on
          /\ Count(qa.className, night_mode) <= 1
          /\ Len(qa.out) = Len(qa.html) + 3
          /\ qa.out[1] = "<script>" /\ qa.out[3] = "</script>"
          /\ qa.out[2] \in {"add_night_mode_class", "remove_night_mode_class"}
          /\ SubSeq(qa.out, 4, Len(qa.out)) = qa.html
    /\ \A on_ \in BOOLEAN, html \in CardHtml :
          LET out == night_class_injection([App EXCEPT !.app.state_on = on_], html)
          IN  /\ SubSeq(out, 4, Len(out)) = html
              /\ Len(Scripts(SubSeq(out, 1, 3))) = 1

\* the class was added for the question, kept (not added again) for the answer in
\* version 1, and removed by the script of a version 2 answer after state_on went off
C11_Witness ==
    /\ last.op = "showAnswer" /\ nm.nm_state_on
    /\ web.className = bodyclass \o <<" ", night_mode>>
    /\ app_last.op = "prepareQA" /\ ~app.state_on
    /\ qa.context = "reviewAnswer"
    /\ qa.html # <<>> /\ Head(qa.html) = "<script>"
    /\ qa.className = bodyclass \o <<" ">>

\* the style strings the add-on has applied to the host
AppliedStyles ==
    {mw.styleSheet, mw.toolbar_css, mw.reviewer_bottomCSS, mw.reviewer_css,
     mw.reviewer_revHtml, mw.deckBrowser_css, mw.deckBrowser_bottom_css,
     mw.overview_css, mw.overview_bottom_css, mw.sharedCSS}

\* the colours a style string embeds as customisable background ("bg:") or text ("fg:")
Embedded(str, marker) == {str[i + 1] : i \in {j \in 1..(Len(str) - 1) : str[j] = marker}}

\* C12: after nm_change_color_b or nm_change_color_t has returned with a valid
\* colour, night mode on and the profile loaded, every applied style string that
\* embeds the customisable background or text colour embeds its current value.
C12_ColorsRegenerated ==
    (/\ last.op \in {"nm_change_color_b", "nm_change_color_t"}
     /\ ret = <<TRUE>> /\ nm.nm_state_on /\ nm.nm_profile_loaded) =>
        \A str \in AppliedStyles :
            /\ Embedded(str, "bg:") \subseteq {nm.nm_color_bl}
            /\ Embedded(str, "fg:") \subseteq {nm.nm_color_td}

DialogHooks ==
    {"nm_style_fields", "nm_editor_init_after", "nm_edit_current_init_after",
     "nm_browser_init_after", "nm_browser_card_info_after", "nm_add_init_after"}

\* what each hook styles: widgets, and the other parts of the dialog
Styles ==
    [nm_style_fields |-> [widgets |-> {}, parts |-> {"evals"}],
     nm_editor_init_after |->
        [widgets |-> {"parentWindow", "tags.completer.popup", "widget"}, parts |-> {}],
     nm_edit_current_init_after |-> [widgets |-> {"self", "form.buttonBox"}, parts |-> {}],
     nm_browser_init_after |->
        [widgets |-> {"self", "form.tableView", "form.tableView.horizontalHeader",
                      "form.searchEdit", "form.searchButton", "form.previewButton"},
         parts |-> {"toolbar_css"}],
     nm_browser_card_info_after |-> [widgets |-> {}, parts |-> {"cardInfoData"}],
     nm_add_init_after |->
        [widgets |-> {"form.buttonBox", "form.line"} \cup Range(horizontalLayout),
         parts |-> {"autoFillBackground"}]]

\* the widgets and parts of the dialog that differ from what the host built
Changed ==
    [widgets |-> {w \in Widgets : dialog.sheets[w] # DialogOriginal.sheets[w]},
     parts |-> {f \in {"toolbar_css", "evals", "autoFillBackground", "cardInfoData"} :
                    dialog[f] # DialogOriginal[f]}]

\* C13: after each of the six dialog hooks the dialog carries the night styling of
\* that hook if nm_state_on and nm_enable_in_dialogs are both true, and is, with
\* the wrapped function's result, as the host built it if either is false.
C13_DialogsStyledIffEnabled ==
    last.op \in DialogHooks =>
        IF nm.nm_state_on /\ nm.nm_enable_in_dialogs
        THEN Changed = Styles[last.op]
        ELSE dialog = DialogOriginal

\* card info is shown styled, in the text colour picked
C13_Witness ==
    /\ last.op = "nm_browser_card_info_after"
    /\ nm.nm_state_on /\ nm.nm_enable_in_dialogs
    /\ nm.nm_color_td \in PickedColors
    /\ Has(dialog.cardInfoData[1], nm.nm_color_td)
    /\ menu.nm_menu_endial = <<TRUE>>

\* the checkable menu object of each setting that has one
MenuObject ==
    [nm_state_on |-> "nm_menu_switch", nm_invert_image |-> "nm_menu_iimage",
     nm_invert_latex |-> "nm_menu_ilatex", nm_enable_in_dialogs |-> "nm_menu_endial",
     nm_transparent_latex |-> "nm_menu_tlatex"]

\* C14: whatever the profile holds for nm_invert_image, nm_invert_latex,
\* nm_enable_in_dialogs and nm_transparent_latex, nm_load called after
\* nm_setup_menu returns without raising and has checked the menu object of every
\* setting that is true.
C14_LoadCompletes ==
    last.op = "nm_load" =>
        /\ exc = None
        /\ \A k \in DOMAIN MenuObject : nm[k] => menu[MenuObject[k]] = <<TRUE>>

\* nm_switch is entered with the menu entry already flipped by the trigger
Switched == nm_switch(Trigger(Machine, "nm_menu_switch"), appVersion, dialogs)

\* C15: on Anki 2.0 with a managed dialog open nm_switch shows the 'can not be
\* switched when the dialogs are open' warning and runs neither nm_on nor nm_off:
\* nm_state_on and the host style attributes stay as they are; on Anki 2.1 an
\* open dialog never blocks the switch.
C15_SwitchGuard ==
    /\ (appVersion = "2.0" /\ dialogs) =>
          /\ Switched.calls = <<NM_DIALOGS_OPEN>>
          /\ Switched.ret = <<>>
          /\ Switched.nm = nm /\ Switched.mw = mw
          /\ last.op = "nm_switch" =>
                /\ calls = <<NM_DIALOGS_OPEN>> /\ ret = <<>>
                /\ nm.nm_state_on = last.was_on[1]
    /\ appVersion = "2.1" =>
          /\ NM_DIALOGS_OPEN \notin Range(Switched.calls)
          /\ Switched.ret # <<>>
          /\ nm.nm_profile_loaded => Switched.nm.nm_state_on = ~nm.nm_state_on
          /\ last.op = "nm_switch" =>
                /\ NM_DIALOGS_OPEN \notin Range(calls) /\ ret # <<>>
                /\ nm.nm_profile_loaded => nm.nm_state_on = ~last.was_on[1]

\* Ctrl+n on Anki 2.0 with the browser open and night mode on: the warning, night
\* mode stays on
C15_Witness ==
    /\ appVersion = "2.0" /\ dialogs
    /\ last.op = "nm_switch" /\ calls = <<NM_DIALOGS_OPEN>>
    /\ nm.nm_state_on /\ NightStylesApplied
    /\ dialog # DialogOriginal

====
